---- MODULE Spec2Model ----
(***************************************************************************)
(* Model of mtpy.core.transfer_function.z.Z, the impedance tensor object.  *)
(*                                                                         *)
(* Numbers.  A tensor entry is kept exactly as                             *)
(*      (re + i*im) * F^fe * 2^se                                          *)
(* where F is MT_TO_OHM_FACTOR (the factor of unit "ohm"; it is irrational *)
(* so powers of F never cancel against anything else) and 2^se collects    *)
(* the square roots of the static-shift factors, which the model draws    *)
(* from the powers of 4.  Multiplying or dividing by a unit factor moves   *)
(* fe, dividing by sqrt(4^j) moves se.  Zero is kept as one canonical      *)
(* value.                                                                  *)
(*                                                                         *)
(* A (N,2,2) array is a sequence of N matrices <<xx, xy, yx, yy>>.         *)
(* None is the empty sequence (no array has length 0).                     *)
(***************************************************************************)
EXTENDS Integers, Sequences, FiniteSets, TLC

VARIABLES
    units,      \* self._units
    dataset,    \* self._dataset of the base container
    last,       \* the call made last: its name, outcome, arguments, result
    ss          \* the static-shift calls made in a row (history)

vars == <<units, dataset, last, ss>>

-----------------------------------------------------------------------------
\* Bounds of the model.
MaxN == 2       \* longest frequency axis
MaxExp == 1     \* largest |fe| and |se| a stored tensor entry may reach

None == <<>>

-----------------------------------------------------------------------------
\* Exact arithmetic on entries.

Zero == [re |-> 0, im |-> 0, fe |-> 0, se |-> 0]

Norm(v) == IF v.re = 0 /\ v.im = 0 THEN Zero ELSE v

\* v * F^d
MulF(v, d) == Norm([v EXCEPT !.fe = @ + d])

\* v / 2^j, that is v / sqrt(4^j)
DivSqrt(v, j) == Norm([v EXCEPT !.se = @ - j])

MapMat(Op(_), m) == <<Op(m[1]), Op(m[2]), Op(m[3]), Op(m[4])>>

\* array * F^d, entry by entry
ArrMulF(a, d) ==
    LET f(v) == MulF(v, d)
    IN  [i \in 1..Len(a) |-> MapMat(f, a[i])]

-----------------------------------------------------------------------------
\* The unit table imported from the package: IMPEDANCE_UNITS maps "mt" to 1
\* and "ohm" to MT_TO_OHM_FACTOR.  The table is given by the exponent of F.
IMPEDANCE_UNITS == [mt |-> 0, ohm |-> 1]

UnitKeys == DOMAIN IMPEDANCE_UNITS

\* str.lower() on the strings the model uses
Lower(s) ==
    CASE s = "MT" -> "mt"
      [] s = "Ohm" -> "ohm"
      [] OTHER -> s

\* Values handed to the units setter: strings, and one value that is no string.
UnitStrings == {"mt", "ohm", "MT", "siemens"}
UnitInputs ==
    [kind : {"str"}, s : UnitStrings] \cup {[kind |-> "int", s |-> "5"]}

\* Z._scale_factor: self._unit_factors[self._units]; a KeyError when the stored
\* units value is no key of the table.
HasScaleFactor(u) == u \in UnitKeys
_scale_factor(u) == IMPEDANCE_UNITS[u]

-----------------------------------------------------------------------------
\* The base container (TFBase): a dataset of three (n,2,2) arrays and a
\* frequency axis, each of which may be absent.

\* Leading length of the dataset built with no data at all (one default period).
EmptyLen == 1

Dataset(n, tf, tf_error, tf_model_error, frequency) ==
    [n |-> n, tf |-> tf, tf_error |-> tf_error,
     tf_model_error |-> tf_model_error, frequency |-> frequency]

_has_tf(ds) == ds.tf # None
_has_tf_error(ds) == ds.tf_error # None
_has_tf_model_error(ds) == ds.tf_model_error # None
_has_frequency(ds) == ds.frequency # None
_is_empty(ds) ==
    ~_has_tf(ds) /\ ~_has_tf_error(ds) /\ ~_has_tf_model_error(ds)
    /\ ~_has_frequency(ds)

LenSet(a) == IF a = None THEN {} ELSE {Len(a)}

\* TFBase._initialize: the first array present fixes the length, the others and
\* the frequency axis must agree with it.
_initialize(tf, tf_error, tf_model_error, frequency) ==
    LET given == LenSet(tf) \cup LenSet(tf_error) \cup LenSet(tf_model_error)
                 \cup LenSet(frequency)
        n == IF tf # None THEN Len(tf)
             ELSE IF tf_error # None THEN Len(tf_error)
             ELSE IF tf_model_error # None THEN Len(tf_model_error)
             ELSE IF frequency # None THEN Len(frequency)
             ELSE EmptyLen
    IN  IF Cardinality(given) > 1
        THEN [out |-> "ValueError", ds |-> None]
        ELSE [out |-> "ok",
              ds |-> Dataset(n, tf, tf_error, tf_model_error, frequency)]

\* TFBase._validate_array_input(array, dtype, old_shape): old_shape is the
\* expected leading length, 0 for None.
_validate_array_input(a, old_shape) ==
    IF a = None THEN "none"
    ELSE IF old_shape # 0 /\ Len(a) # old_shape THEN "ValueError"
    ELSE "ok"

\* self._dataset[name].loc[self.comps] = a: the labelled write of a whole array.
LocWrite(ds, name, a) ==
    IF Len(a) # ds.n
    THEN [out |-> "ValueError", ds |-> ds]
    ELSE [out |-> "ok", ds |-> [ds EXCEPT ![name] = a]]

-----------------------------------------------------------------------------
\* A units setter that stores the value before it validates it.
units_setter_AssignFirst(u, value) ==
    IF value.kind # "str" THEN [out |-> "TypeError", units |-> u]
    ELSE IF Lower(value.s) \notin UnitKeys
    THEN [out |-> "ValueError", units |-> value.s]
    ELSE [out |-> "ok", units |-> value.s]

\* Z.units setter: the outcome and the stored value.
units_setter(u, value) ==
    IF value.kind # "str" THEN [out |-> "TypeError", units |-> u]
    ELSE IF Lower(value.s) \notin UnitKeys
    THEN [out |-> "ValueError", units |-> u]
    ELSE [out |-> "ok", units |-> value.s]

\* Z.z, Z.z_error, Z.z_model_error getters: the stored array over the scale
\* factor, None when the array is absent, and the KeyError of _scale_factor
\* when the stored units value is no key of the table.
Get(u, ds, name) ==
    IF ds[name] = None THEN [out |-> "ok", val |-> None]
    ELSE IF ~HasScaleFactor(u) THEN [out |-> "KeyError", val |-> None]
    ELSE [out |-> "ok", val |-> ArrMulF(ds[name], 0 - _scale_factor(u))]

z(u, ds) == Get(u, ds, "tf")
z_error(u, ds) == Get(u, ds, "tf_error")
z_model_error(u, ds) == Get(u, ds, "tf_model_error")

\* A constructor that stores its arrays as given, without the scale factor.
Z_Unscaled(z_in, z_error_in, frequency_in, z_model_error_in, units_in) ==
    LET us == units_setter("", units_in)
        r == _initialize(z_in, z_error_in, z_model_error_in, frequency_in)
    IN  IF us.out # "ok" THEN [out |-> us.out, units |-> "", ds |-> None]
        ELSE [out |-> r.out, units |-> us.units, ds |-> r.ds]

\* Z.__init__
Z(z_in, z_error_in, frequency_in, z_model_error_in, units_in) ==
    LET us == units_setter("", units_in)
        needs == z_in # None \/ z_error_in # None \/ z_model_error_in # None
        sc(a) == IF a = None THEN None ELSE ArrMulF(a, _scale_factor(us.units))
    IN  IF us.out # "ok" THEN [out |-> us.out, units |-> "", ds |-> None]
        ELSE IF needs /\ ~HasScaleFactor(us.units)
        THEN [out |-> "KeyError", units |-> "", ds |-> None]
        ELSE LET r == _initialize(sc(z_in), sc(z_error_in),
                                  sc(z_model_error_in), frequency_in)
             IN  [out |-> r.out, units |-> us.units, ds |-> r.ds]

-----------------------------------------------------------------------------
\* The three array setters: the outcome and the dataset afterwards.

\* A z setter that initializes the storage before it validates the shape.
z_setter_CommitFirst(ds, a) ==
    LET old_shape == IF _has_tf(ds) THEN ds.n
                     ELSE IF _has_frequency(ds) THEN Len(ds.frequency)
                     ELSE 0
        v == _validate_array_input(a, old_shape)
    IN  IF v = "none" THEN [out |-> "ok", ds |-> ds]
        ELSE IF v # "ok" THEN [out |-> v, ds |-> _initialize(a, None, None, None).ds]
        ELSE IF _is_empty(ds) THEN _initialize(a, None, None, None)
        ELSE LocWrite(ds, "tf", a)

\* Z.z setter
z_setter(ds, a) ==
    LET old_shape == IF _has_tf(ds) THEN ds.n
                     ELSE IF _has_frequency(ds) THEN Len(ds.frequency)
                     ELSE 0
        v == _validate_array_input(a, old_shape)
    IN  IF v = "none" THEN [out |-> "ok", ds |-> ds]
        ELSE IF v # "ok" THEN [out |-> v, ds |-> ds]
        ELSE IF _is_empty(ds) THEN _initialize(a, None, None, None)
        ELSE LocWrite(ds, "tf", a)

\* Z.z_error setter
z_error_setter(ds, a) ==
    LET old_shape == IF ~_has_tf_error(ds) THEN ds.n
                     ELSE IF _has_frequency(ds) THEN Len(ds.frequency)
                     ELSE 0
        v == _validate_array_input(a, old_shape)
    IN  IF v = "none" THEN [out |-> "ok", ds |-> ds]
        ELSE IF v # "ok" THEN [out |-> v, ds |-> ds]
        ELSE IF _is_empty(ds) THEN _initialize(None, a, None, None)
        ELSE LocWrite(ds, "tf_error", a)

\* Z.z_model_error setter
z_model_error_setter(ds, a) ==
    LET old_shape == IF ~_has_tf_model_error(ds) THEN ds.n
                     ELSE IF _has_frequency(ds) THEN Len(ds.frequency)
                     ELSE 0
        v == _validate_array_input(a, old_shape)
    IN  IF v = "none" THEN [out |-> "ok", ds |-> ds]
        ELSE IF v # "ok" THEN [out |-> v, ds |-> ds]
        ELSE IF _is_empty(ds) THEN _initialize(None, a, None, None)
        ELSE LocWrite(ds, "tf_model_error", a)

-----------------------------------------------------------------------------
\* Z.remove_ss.  A factor is a number 4^j, a string that is no number, or a
\* list of len numbers 4^j.

Iterable(factor) == factor.kind # "num"

\* len(self.z): the KeyError of the getter, or the TypeError of len(None)
LenZ(u, ds) ==
    LET r == z(u, ds)
    IN  IF r.out # "ok" THEN [out |-> r.out, n |-> 0]
        ELSE IF r.val = None THEN [out |-> "TypeError", n |-> 0]
        ELSE [out |-> "ok", n |-> Len(r.val)]

\* _validate_factor_single: float(factor), whose ValueError is raised again
\* and whose TypeError is not caught, then np.repeat(x_factor, len(self.z))
_validate_factor_single(factor, u, ds) ==
    LET n == LenZ(u, ds)
    IN  IF factor.kind = "str" THEN [out |-> "ValueError", arr |-> None]
        ELSE IF factor.kind = "list" THEN [out |-> "TypeError", arr |-> None]
        ELSE IF n.out # "ok" THEN [out |-> n.out, arr |-> None]
        ELSE [out |-> "ok", arr |-> [f \in 1..n.n |-> factor.j]]

\* _validate_ss_input(factor), inside a call whose first factor is
\* reduce_res_factor_x
_validate_ss_input(factor, reduce_res_factor_x, u, ds) ==
    LET n == LenZ(u, ds)
        r == IF ~Iterable(factor) THEN _validate_factor_single(factor, u, ds)
             ELSE IF ~Iterable(reduce_res_factor_x)
             THEN [out |-> "TypeError", arr |-> None]
             ELSE IF reduce_res_factor_x.len = 1
             THEN _validate_factor_single(factor, u, ds)
             ELSE IF factor.kind = "str" THEN [out |-> "ValueError", arr |-> None]
             ELSE [out |-> "ok", arr |-> [f \in 1..factor.len |-> factor.j]]
    IN  IF r.out # "ok" THEN r
        ELSE IF n.out # "ok" THEN [out |-> n.out, arr |-> None]
        ELSE IF Len(r.arr) # n.n THEN [out |-> "ValueError", arr |-> None]
        ELSE r

\* z_corrected: each row times the scale factor, over the square root of its
\* factor, and the whole over the scale factor again
z_corrected(zv, sf, x_factors, y_factors) ==
    LET row(v, j) == MulF(DivSqrt(MulF(v, sf), j), 0 - sf)
    IN  [f \in 1..Len(zv) |->
            <<row(zv[f][1], x_factors[f]), row(zv[f][2], x_factors[f]),
              row(zv[f][3], y_factors[f]), row(zv[f][4], y_factors[f])>>]

NoRet == [units |-> "", ds |-> None]

\* remove_ss: the outcome, the receiver's dataset afterwards, the returned
\* object (NoRet when nothing is returned) and the square roots applied
remove_ss(u, ds, reduce_res_factor_x, reduce_res_factor_y, inplace) ==
    LET x == _validate_ss_input(reduce_res_factor_x, reduce_res_factor_x, u, ds)
        y == _validate_ss_input(reduce_res_factor_y, reduce_res_factor_x, u, ds)
        fail(o) == [out |-> o, ds |-> ds, ret |-> NoRet, jx |-> None, jy |-> None]
    IN  IF x.out # "ok" THEN fail(x.out)
        ELSE IF y.out # "ok" THEN fail(y.out)
        ELSE LET zc == z_corrected(z(u, ds).val, _scale_factor(u), x.arr, y.arr)
             IN  IF inplace
                 THEN LET r == z_setter(ds, zc)
                      IN  [out |-> r.out, ds |-> r.ds, ret |-> NoRet,
                           jx |-> x.arr, jy |-> y.arr]
                 ELSE LET r == Z(zc, z_error(u, ds).val, ds.frequency,
                                 z_model_error(u, ds).val,
                                 [kind |-> "str", s |-> u])
                      IN  [out |-> r.out, ds |-> ds,
                           ret |-> [units |-> r.units, ds |-> r.ds],
                           jx |-> x.arr, jy |-> y.arr]

-----------------------------------------------------------------------------
\* Z.remove_distortion, with the corrected tensor and error the collaborator
\* remove_distortion_from_z_object hands back (any arrays of the right length).
remove_distortion(u, ds, zc, zce, inplace) ==
    LET fail(o) == [out |-> o, ds |-> ds, ret |-> NoRet]
    IN  IF ~_has_tf(ds) THEN fail("CollaboratorError")
        ELSE IF ~HasScaleFactor(u) THEN fail("KeyError")
        ELSE LET zcs == ArrMulF(zc, _scale_factor(u))
                 zces == ArrMulF(zce, _scale_factor(u))
             IN  IF inplace
                 THEN LET r1 == z_setter(ds, zcs)
                          r2 == z_error_setter(r1.ds, zces)
                      IN  IF r1.out # "ok" THEN fail(r1.out)
                          ELSE [out |-> r2.out, ds |-> r2.ds, ret |-> NoRet]
                 ELSE LET r == Z(zcs, zces, ds.frequency,
                                 z_model_error(u, ds).val,
                                 [kind |-> "str", s |-> "mt"])
                          us == units_setter(r.units, [kind |-> "str", s |-> u])
                      IN  IF r.out # "ok" THEN fail(r.out)
                          ELSE [out |-> us.out, ds |-> ds,
                                ret |-> [units |-> us.units, ds |-> r.ds]]

-----------------------------------------------------------------------------
\* Z.estimate_dimensionality on the skew and the eccentricity the phase
\* tensor reports: ones, then 2 where the eccentricity is over its threshold,
\* then 3 where |skew| is over its threshold.
Abs(i) == IF i < 0 THEN 0 - i ELSE i

\* The same with the two assignments in the other order: 3 first, then 2.
estimate_dimensionality_SkewFirst(skew, eccentricity, skew_threshold, eccentricity_threshold) ==
    LET ones == [f \in 1..Len(skew) |-> 1]
        three == [f \in 1..Len(skew) |->
                    IF Abs(skew[f]) > skew_threshold THEN 3 ELSE ones[f]]
    IN  [f \in 1..Len(skew) |->
            IF eccentricity[f] > eccentricity_threshold THEN 2 ELSE three[f]]

estimate_dimensionality(skew, eccentricity, skew_threshold, eccentricity_threshold) ==
    LET ones == [f \in 1..Len(skew) |-> 1]
        two == [f \in 1..Len(skew) |->
                  IF eccentricity[f] > eccentricity_threshold THEN 2 ELSE ones[f]]
    IN  [f \in 1..Len(skew) |->
            IF Abs(skew[f]) > skew_threshold THEN 3 ELSE two[f]]

-----------------------------------------------------------------------------
\* Derived quantities.  Their values are kept as exact terms: what stands
\* under a root, an arctan or an arcsin is kept with the integer parts and the
\* exponents of F and 2 it is made of, so that two values are equal when the
\* terms are.

Sq(v) == v.re * v.re + v.im * v.im

RECURSIVE GCD(_, _)
GCD(a, b) == IF b = 0 THEN a ELSE GCD(b, a % b)

\* a * b on entries
Mul(a, b) ==
    Norm([re |-> a.re * b.re - a.im * b.im, im |-> a.re * b.im + a.im * b.re,
          fe |-> a.fe + b.fe, se |-> a.se + b.se])

\* a + b and a - b on entries that carry the same powers of F and 2 (or are 0)
Add(a, b) ==
    IF a = Zero THEN b
    ELSE IF b = Zero THEN a
    ELSE Norm([a EXCEPT !.re = @ + b.re, !.im = @ + b.im])

Sub(a, b) == Add(a, [b EXCEPT !.re = 0 - @, !.im = 0 - @])

\* the frequency axis of the container, None when absent
frequency(ds) == ds.frequency

ZeroTerm == [num |-> 0, den |-> 1, fe |-> 0, se |-> 0]

\* the real number num / den * F^fe * 2^se in lowest terms
Ratio(num, den, fe, se) ==
    IF num = 0 THEN ZeroTerm
    ELSE LET g == GCD(num, den)
         IN  [num |-> num \div g, den |-> den \div g, fe |-> fe, se |-> se]

\* np.abs(x) ** 2 / frequency * 0.2, on one entry
ResEntry(v, fr) == Ratio(Sq(v), 5 * fr, 2 * v.fe, 2 * v.se)

\* np.rad2deg(np.angle(x)) on one entry: the angle in degrees where it is a
\* multiple of 45, otherwise the direction of x
Sgn(i) == IF i > 0 THEN 1 ELSE IF i < 0 THEN 0 - 1 ELSE 0

DirDeg ==
    [d \in {<<0, 0>>, <<1, 0>>, <<1, 1>>, <<0, 1>>, <<0 - 1, 1>>, <<0 - 1, 0>>,
            <<0 - 1, 0 - 1>>, <<0, 0 - 1>>, <<1, 0 - 1>>} |->
        CASE d = <<0, 0>> -> 0
          [] d = <<1, 0>> -> 0
          [] d = <<1, 1>> -> 45
          [] d = <<0, 1>> -> 90
          [] d = <<0 - 1, 1>> -> 135
          [] d = <<0 - 1, 0>> -> 180
          [] d = <<0 - 1, 0 - 1>> -> 0 - 135
          [] d = <<0, 0 - 1>> -> 0 - 90
          [] d = <<1, 0 - 1>> -> 0 - 45]

PhaseEntry(v) ==
    LET g == GCD(Abs(v.re), Abs(v.im))
        d == IF g = 0 THEN <<0, 0>> ELSE <<v.re \div g, v.im \div g>>
    IN  IF d \in DOMAIN DirDeg THEN [deg |-> DirDeg[d], dir |-> <<0, 0>>]
        ELSE [deg |-> 0, dir |-> d]

\* 2 * e * np.abs(x) / frequency * 0.2 on one entry: coef * sqrt(abs2) / den
ResErrEntry(e, v, fr) ==
    IF e.re = 0 \/ Sq(v) = 0
    THEN [coef |-> 0, abs2 |-> 0, den |-> 1, fe |-> 0, se |-> 0]
    ELSE [coef |-> 2 * e.re, abs2 |-> Sq(v), den |-> 5 * fr,
          fe |-> e.fe + v.fe, se |-> e.se + v.se]

\* np.degrees(np.arctan(e / np.abs(x))) on one entry: arctan(e / sqrt(abs2));
\* a division by zero is silenced and gives the term of nan (0/0) or of inf
PhaseErrEntry(e, v) ==
    IF Sq(v) = 0
    THEN [e |-> Sgn(e.re), abs2 |-> 0, fe |-> 0, se |-> 0]
    ELSE IF e.re = 0 THEN [e |-> 0, abs2 |-> 1, fe |-> 0, se |-> 0]
    ELSE [e |-> e.re, abs2 |-> Sq(v), fe |-> e.fe - v.fe, se |-> e.se - v.se]

ScaleArr(a, u) == ArrMulF(a, _scale_factor(u))

Absent == [out |-> "ok", val |-> None]
Raised(o) == [out |-> o, val |-> None]
Value(v) == [out |-> "ok", val |-> v]

\* A resistivity computed from the tensor as read, without the scale factor.
resistivity_AsRead(u, ds) ==
    LET r == z(u, ds)
    IN  IF r.out # "ok" THEN Raised(r.out)
        ELSE IF r.val = None THEN Absent
        ELSE IF frequency(ds) = None THEN Raised("TypeError")
        ELSE Value([f \in 1..Len(r.val) |->
                      [k \in 1..4 |-> ResEntry(r.val[f][k], frequency(ds)[f])]])

\* Z.resistivity
resistivity(u, ds) ==
    LET r == z(u, ds)
    IN  IF r.out # "ok" THEN Raised(r.out)
        ELSE IF r.val = None THEN Absent
        ELSE IF frequency(ds) = None THEN Raised("TypeError")
        ELSE LET zs == ScaleArr(r.val, u)
             IN  Value([f \in 1..Len(zs) |->
                          [k \in 1..4 |-> ResEntry(zs[f][k], frequency(ds)[f])]])

\* Z.phase
phase(u, ds) ==
    LET r == z(u, ds)
    IN  IF r.out # "ok" THEN Raised(r.out)
        ELSE IF r.val = None THEN Absent
        ELSE LET zs == ScaleArr(r.val, u)
             IN  Value([f \in 1..Len(zs) |->
                          [k \in 1..4 |-> PhaseEntry(zs[f][k])]])

\* Z.resistivity_error and Z.resistivity_model_error, on the error array read
ResistivityError(u, ds, e) ==
    LET r == z(u, ds)
    IN  IF r.out # "ok" THEN Raised(r.out)
        ELSE IF r.val = None THEN Absent
        ELSE IF e.out # "ok" THEN Raised(e.out)
        ELSE IF e.val = None THEN Absent
        ELSE IF frequency(ds) = None THEN Raised("TypeError")
        ELSE LET zs == ScaleArr(r.val, u)
                 es == ScaleArr(e.val, u)
             IN  Value([f \in 1..Len(zs) |->
                          [k \in 1..4 |->
                              ResErrEntry(es[f][k], zs[f][k], frequency(ds)[f])]])

resistivity_error(u, ds) == ResistivityError(u, ds, z_error(u, ds))
resistivity_model_error(u, ds) == ResistivityError(u, ds, z_model_error(u, ds))

\* Z.phase_error and Z.phase_model_error, on the error array read
PhaseError(u, ds, e) ==
    LET r == z(u, ds)
    IN  IF r.out # "ok" THEN Raised(r.out)
        ELSE IF r.val = None THEN Absent
        ELSE IF e.out # "ok" THEN Raised(e.out)
        ELSE IF e.val = None THEN Absent
        ELSE Value([f \in 1..Len(r.val) |->
                      [k \in 1..4 |-> PhaseErrEntry(e.val[f][k], r.val[f][k])]])

phase_error(u, ds) == PhaseError(u, ds, z_error(u, ds))
phase_model_error(u, ds) == PhaseError(u, ds, z_model_error(u, ds))

\* np.linalg.det of one 2x2 matrix <<xx, xy, yx, yy>>
Det2(m) == Sub(Mul(m[1], m[4]), Mul(m[2], m[3]))

\* (det(m + e) - det(m - e)) / 2: the products of m with itself and of e with
\* itself cancel, the mixed products remain
HalfDiff(m, e) ==
    Sub(Add(Mul(m[1], e[4]), Mul(e[1], m[4])),
        Add(Mul(m[2], e[3]), Mul(e[2], m[3])))

\* Z.det: the complex root of the determinant, kept as what is under the root
det(u, ds) ==
    LET r == z(u, ds)
    IN  IF r.out # "ok" THEN Raised(r.out)
        ELSE IF r.val = None THEN Absent
        ELSE LET zs == ScaleArr(r.val, u)
             IN  Value([f \in 1..Len(zs) |-> [sqrt_of |-> Det2(zs[f])]])

\* factor * np.abs(w) ** 0.5 with factor = F^s: the fourth root of abs2 times
\* F^(fe2 / 2) * 2^(se2 / 2)
RootAbs(w, s) ==
    IF w = Zero THEN [abs2 |-> 0, fe2 |-> 0, se2 |-> 0]
    ELSE [abs2 |-> Sq(w), fe2 |-> w.fe + 2 * s, se2 |-> w.se]

\* Z.det_error
det_error(u, ds) ==
    LET e == z_error(u, ds)
        r == z(u, ds)
    IN  IF e.out # "ok" THEN Raised(e.out)
        ELSE IF e.val = None THEN Absent
        ELSE IF r.out # "ok" THEN Raised(r.out)
        ELSE IF r.val = None THEN Raised("TypeError")
        ELSE Value([f \in 1..Len(r.val) |->
                      RootAbs(HalfDiff(r.val[f], e.val[f]), _scale_factor(u))])

\* Z.det_model_error: the same without the scale factor in front
det_model_error(u, ds) ==
    LET e == z_model_error(u, ds)
        r == z(u, ds)
    IN  IF e.out # "ok" THEN Raised(e.out)
        ELSE IF e.val = None THEN Absent
        ELSE IF r.out # "ok" THEN Raised(r.out)
        ELSE IF r.val = None THEN Raised("TypeError")
        ELSE Value([f \in 1..Len(r.val) |->
                      RootAbs(HalfDiff(r.val[f], e.val[f]), 0)])

\* Z.phase_det: the angle of the root is half the angle of what is under it
phase_det(u, ds) ==
    LET d == det(u, ds)
    IN  IF d.out # "ok" THEN Raised(d.out)
        ELSE IF d.val = None THEN Absent
        ELSE Value([f \in 1..Len(d.val) |->
                      [half_of |-> PhaseEntry(d.val[f].sqrt_of)]])

\* Z.phase_error_det and Z.phase_model_error_det, on the determinant error
\* read: arcsin(det_error / abs(det)); None / array is a TypeError
PhaseErrorDet(u, ds, de) ==
    LET d == det(u, ds)
    IN  IF d.out # "ok" THEN Raised(d.out)
        ELSE IF d.val = None THEN Absent
        ELSE IF de.out # "ok" THEN Raised(de.out)
        ELSE IF de.val = None THEN Raised("TypeError")
        ELSE Value([f \in 1..Len(d.val) |->
                      [arcsin_of |-> de.val[f], over_abs |-> d.val[f]]])

phase_error_det(u, ds) == PhaseErrorDet(u, ds, det_error(u, ds))
phase_model_error_det(u, ds) == PhaseErrorDet(u, ds, det_model_error(u, ds))

\* 0.2 * (1 / frequency) * abs(det) ** 2 on one frequency: sqrt(abs2) / den
ResDetEntry(d, fr) ==
    IF d = Zero THEN [abs2 |-> 0, den |-> 1, fe |-> 0, se |-> 0]
    ELSE [abs2 |-> Sq(d), den |-> 5 * fr, fe |-> d.fe, se |-> d.se]

\* Z.res_det
res_det(u, ds) ==
    LET d == det(u, ds)
    IN  IF d.out # "ok" THEN Raised(d.out)
        ELSE IF d.val = None THEN Absent
        ELSE IF frequency(ds) = None THEN Raised("TypeError")
        ELSE Value([f \in 1..Len(d.val) |->
                      ResDetEntry(d.val[f].sqrt_of, frequency(ds)[f])])

\* Z.res_error_det and Z.res_model_error_det, on the determinant error read:
\* 0.2 * (1 / frequency) * abs(det + det_error) ** 2 - res_det
ResErrorDet(u, ds, de) ==
    LET d == det(u, ds)
        rd == res_det(u, ds)
    IN  IF de.out # "ok" THEN Raised(de.out)
        ELSE IF de.val = None THEN Absent
        ELSE IF frequency(ds) = None THEN Raised("TypeError")
        ELSE Value([f \in 1..Len(de.val) |->
                      [det |-> d.val[f], plus |-> de.val[f],
                       den |-> 5 * frequency(ds)[f], minus |-> rd.val[f]]])

res_error_det(u, ds) == ResErrorDet(u, ds, det_error(u, ds))
res_model_error_det(u, ds) == ResErrorDet(u, ds, det_model_error(u, ds))

\* Z._get_component: array[:, ii, jj], None for None
CompIndex == [xx |-> 1, xy |-> 2, yx |-> 3, yy |-> 4]

_get_component(comp, array) ==
    IF array.out # "ok" THEN array
    ELSE IF array.val = None THEN Absent
    ELSE Value([f \in 1..Len(array.val) |-> array.val[f][CompIndex[comp]]])

\* the array properties by name
PropertyNames ==
    {"z", "z_error", "z_model_error", "resistivity", "phase", "resistivity_error", "phase_error",
     "resistivity_model_error", "phase_model_error", "det", "det_error",
     "det_model_error", "phase_det", "phase_error_det",
     "phase_model_error_det", "res_det", "res_error_det",
     "res_model_error_det"}

Property(name, u, ds) ==
    CASE name = "z" -> z(u, ds)
      [] name = "z_error" -> z_error(u, ds)
      [] name = "z_model_error" -> z_model_error(u, ds)
      [] name = "resistivity" -> resistivity(u, ds)
      [] name = "phase" -> phase(u, ds)
      [] name = "resistivity_error" -> resistivity_error(u, ds)
      [] name = "phase_error" -> phase_error(u, ds)
      [] name = "resistivity_model_error" -> resistivity_model_error(u, ds)
      [] name = "phase_model_error" -> phase_model_error(u, ds)
      [] name = "det" -> det(u, ds)
      [] name = "det_error" -> det_error(u, ds)
      [] name = "det_model_error" -> det_model_error(u, ds)
      [] name = "phase_det" -> phase_det(u, ds)
      [] name = "phase_error_det" -> phase_error_det(u, ds)
      [] name = "phase_model_error_det" -> phase_model_error_det(u, ds)
      [] name = "res_det" -> res_det(u, ds)
      [] name = "res_error_det" -> res_error_det(u, ds)
      [] name = "res_model_error_det" -> res_model_error_det(u, ds)

\* res_xx .. phase_model_error_yy: the component of the array property
ComponentOf ==
    [res |-> "resistivity", res_error |-> "resistivity_error",
     res_model_error |-> "resistivity_model_error", phase |-> "phase",
     phase_error |-> "phase_error", phase_model_error |-> "phase_model_error"]

Component(prefix, comp, u, ds) ==
    _get_component(comp, Property(ComponentOf[prefix], u, ds))

-----------------------------------------------------------------------------
\* Z.set_resistivity_phase.  Resistivities, phases and their errors are
\* (N,2,2) arrays of integers; the inputs are such that every root taken is
\* an integer and every phase a multiple of 90 degrees, so that the tensor
\* built is exact.

\* the frequency setter of the container with its validation: the axis of an
\* empty container is initialized, the axis of any other is replaced by one
\* of the same length
frequency_setter(ds, fr) ==
    IF _is_empty(ds) THEN _initialize(None, None, None, fr)
    ELSE IF Len(fr) # ds.n THEN [out |-> "ValueError", ds |-> ds]
    ELSE [out |-> "ok", ds |-> [ds EXCEPT !.frequency = fr]]

\* leading length of the numpy broadcast of lengths n and m, 0 when they
\* cannot be broadcast
Broadcast(n, m) ==
    IF n = m THEN n ELSE IF n = 1 THEN m ELSE IF m = 1 THEN n ELSE 0

\* a[f] under broadcasting
Pick(a, f) == a[IF Len(a) = 1 THEN 1 ELSE f]

\* np.sqrt on the squares
RECURSIVE RootIn(_, _, _)
RootIn(n, lo, hi) ==
    IF lo >= hi THEN lo
    ELSE LET mid == (lo + hi) \div 2
         IN  IF mid * mid >= n THEN RootIn(n, lo, mid)
             ELSE RootIn(n, mid + 1, hi)

ISqrt(n) == RootIn(n, 0, n)

\* np.exp(1j * np.radians(p)) on the multiples of 90
UnitDir(p) ==
    CASE p = 0 -> <<1, 0>>
      [] p = 90 -> <<0, 1>>
      [] p = 180 -> <<0 - 1, 0>>
      [] p = 0 - 90 -> <<0, 0 - 1>>

\* np.abs(np.tan(np.radians(p))) on 0 and 45
AbsTan(p) ==
    CASE p = 0 -> 0
      [] p = 45 -> 1

\* np.sqrt(5.0 * self.frequency * (resistivity.T)).T * np.exp(1j * np.radians(phase))
ZFromResPhase(fr, res, ph, n) ==
    [f \in 1..n |->
        [k \in 1..4 |->
            LET mag == ISqrt(5 * Pick(fr, f) * Pick(res, f)[k])
                d == UnitDir(Pick(ph, f)[k])
            IN  Norm([re |-> mag * d[1], im |-> mag * d[2], fe |-> 0, se |-> 0])]]

\* Z._compute_z_error with self.frequency = fr: None for no res_error, the
\* TypeError of np.radians(None), the ValueError of a failed broadcast
_compute_z_error(fr, res_err, phase_err) ==
    IF res_err = None THEN Absent
    ELSE IF phase_err = None THEN Raised("TypeError")
    ELSE LET n1 == Broadcast(Len(fr), Len(res_err))
             n2 == Broadcast(n1, Len(phase_err))
         IN  IF n1 = 0 \/ n2 = 0 THEN Raised("ValueError")
             ELSE Value([f \in 1..n2 |->
                     [k \in 1..4 |->
                         Norm([re |-> ISqrt(Pick(fr, f) * Pick(res_err, f)[k] * 250)
                                        * AbsTan(Pick(phase_err, f)[k]),
                               im |-> 0, fe |-> 0, se |-> 0])]])

\* set_resistivity_phase: the outcome and the dataset afterwards
set_resistivity_phase(ds, a) ==
    IF a.resistivity = None \/ a.phase = None \/ a.frequency = None
    THEN [out |-> "ok", ds |-> ds]
    ELSE
    LET fs == frequency_setter(ds, a.frequency)
        n1 == Broadcast(Len(a.frequency), Len(a.resistivity))
        n2 == Broadcast(n1, Len(a.phase))
    IN  IF fs.out # "ok" THEN [out |-> fs.out, ds |-> ds]
        ELSE IF n1 = 0 \/ n2 = 0 THEN [out |-> "ValueError", ds |-> fs.ds]
        ELSE
        LET zr == z_setter(fs.ds,
                           ZFromResPhase(a.frequency, a.resistivity, a.phase, n2))
            ze == _compute_z_error(a.frequency, a.res_error, a.phase_error)
        IN  IF zr.out # "ok" THEN zr
            ELSE IF ze.out # "ok" THEN [out |-> ze.out, ds |-> zr.ds]
            ELSE
            LET er == z_error_setter(zr.ds, ze.val)
                zm == _compute_z_error(a.frequency, a.res_model_error,
                                       a.phase_model_error)
            IN  IF er.out # "ok" THEN er
                ELSE IF zm.out # "ok" THEN [out |-> zm.out, ds |-> er.ds]
                ELSE z_model_error_setter(er.ds, zm.val)

-----------------------------------------------------------------------------
\* Input data.

C(re, im) == [re |-> re, im |-> im, fe |-> 0, se |-> 0]

\* complex (N,2,2) arrays
ZSample(N, s) ==
    [f \in 1..N |-> <<C(s, f), C(1, 0 - s), C(0 - 1, 2), C(0, 0)>>]
\* real (N,2,2) arrays
ESample(N, s) ==
    [f \in 1..N |-> <<C(s, 0), C(1, 0), C(2 * f + 1, 0), C(0, 0)>>]
\* positive frequencies
FSample(N) == [f \in 1..N |-> f + 1]

Lengths == 1..MaxN
ZInputs == {ZSample(N, 1) : N \in Lengths}
EInputs == {ESample(N, 1) : N \in Lengths}
MEInputs == {ESample(N, 3) : N \in Lengths}
FInputs == {FSample(N) : N \in Lengths}

\* static-shift factors: 1/4, 4, a string, lists of 4s
Factors ==
    [kind : {"num"}, j : {0 - 1, 1}, len : {0}]
    \cup {[kind |-> "str", j |-> 0, len |-> 3]}
    \cup [kind : {"list"}, j : {1}, len : Lengths]

\* what the distortion collaborator hands back for a tensor of length N
DistortionOut(N) == [z |-> ZSample(N, 2), z_error |-> ESample(N, 2)]

\* skew (degrees) and eccentricity (in tenths) of the phase tensor, and the
\* thresholds in the same scales; 5 and 1 are the defaults 5 and 0.1
SkewValues == {0, 0 - 10}
EccValues == {0, 2}
SkewThresholds == {5, 10}
EccThresholds == {1, 2}

\* resistivities (one entry 0 at the second frequency), phases in (-180, 180],
\* frequencies 5 f^2, resistivity errors and phase errors
RSample(N) ==
    [f \in 1..N |-> IF f = 1 THEN <<1, 4, 1, 4>> ELSE <<4, 1, 0, 1>>]
PSample(N) ==
    [f \in 1..N |-> IF f = 1 THEN <<0, 90, 180, 0 - 90>>
                    ELSE <<180, 0 - 90, 90, 0>>]
RPFreq(N) == [f \in 1..N |-> 5 * f * f]
RESample(N) == [f \in 1..N |-> <<2, 0, 2, 8>>]
PESample(N) == [f \in 1..N |-> <<45, 45, 0, 45>>]

\* which of the three required arguments is None, and how the two arguments
\* of an error pair are given
Missing == {"", "resistivity", "phase", "frequency"}
ErrCases == {"none", "both", "res_only", "long"}
ModelErrCases == {"none", "both"}

ErrArgs(case, N) ==
    CASE case = "none" -> [res |-> None, ph |-> None]
      [] case = "both" -> [res |-> RESample(N), ph |-> PESample(N)]
      [] case = "res_only" -> [res |-> RESample(N), ph |-> None]
      [] case = "long" -> [res |-> RESample(N + 1), ph |-> PESample(N + 1)]

\* the arguments of one call of set_resistivity_phase
RPArgs(N, Nf, missing, err, merr) ==
    [frequency |-> IF missing = "frequency" THEN None ELSE RPFreq(Nf),
     resistivity |-> IF missing = "resistivity" THEN None ELSE RSample(N),
     phase |-> IF missing = "phase" THEN None ELSE PSample(N),
     phase_error |-> ErrArgs(err, N).ph,
     phase_model_error |-> ErrArgs(merr, N).ph,
     res_error |-> ErrArgs(err, N).res,
     res_model_error |-> ErrArgs(merr, N).res]

\* stored entries stay within the exponents the model follows
ArrInBounds(a) ==
    \A f \in 1..Len(a) : \A k \in 1..4 :
        /\ a[f][k].fe \in (0 - MaxExp)..MaxExp
        /\ a[f][k].se \in (0 - MaxExp)..MaxExp

InBounds(ds) ==
    IF ds = None THEN TRUE
    ELSE /\ ArrInBounds(ds.tf)
         /\ ArrInBounds(ds.tf_error)
         /\ ArrInBounds(ds.tf_model_error)

Neg(js) == [f \in 1..Len(js) |-> 0 - js[f]]

NoArgs == [x |-> None]
NoSS == [stage |-> 0, orig |-> None, jx |-> None, jy |-> None, onret |-> FALSE]

Last(op, out, arg, ret) == [op |-> op, out |-> out, arg |-> arg, ret |-> ret]

-----------------------------------------------------------------------------
Init ==
    \E zi \in ZInputs \cup {None}, ei \in EInputs \cup {None},
       mi \in MEInputs \cup {None}, fi \in FInputs \cup {None},
       ui \in UnitInputs :
        LET r == Z(zi, ei, fi, mi, ui)
        IN  /\ r.out = "ok"
            /\ units = r.units
            /\ dataset = r.ds
            /\ last = Last("init", "ok",
                           [z |-> zi, z_error |-> ei, z_model_error |-> mi,
                            frequency |-> fi, units |-> ui], NoRet)
            /\ ss = NoSS

\* obj.units = value
SetUnits(value) ==
    \E r \in {units_setter(units, value)} :
        /\ units' = r.units
        /\ UNCHANGED dataset
        /\ last' = Last("units", r.out, [value |-> value], NoRet)
        /\ ss' = NoSS

\* obj.z = a
Set_z(a) ==
    \E r \in {z_setter(dataset, a)} :
        /\ dataset' = r.ds
        /\ UNCHANGED units
        /\ last' = Last("z", r.out, [value |-> a], NoRet)
        /\ ss' = NoSS

\* obj.z_error = a
Set_z_error(a) ==
    \E r \in {z_error_setter(dataset, a)} :
        /\ dataset' = r.ds
        /\ UNCHANGED units
        /\ last' = Last("z_error", r.out, [value |-> a], NoRet)
        /\ ss' = NoSS

\* obj.z_model_error = a
Set_z_model_error(a) ==
    \E r \in {z_model_error_setter(dataset, a)} :
        /\ dataset' = r.ds
        /\ UNCHANGED units
        /\ last' = Last("z_model_error", r.out, [value |-> a], NoRet)
        /\ ss' = NoSS

\* obj.remove_ss(fx, fy, inplace)
RemoveSS(fx, fy, inplace) ==
    \E r \in {remove_ss(units, dataset, fx, fy, inplace)} :
    LET ok == r.out = "ok"
        second == /\ ss.stage = 1
                  /\ ~ss.onret
                  /\ r.jx = Neg(ss.jx)
                  /\ r.jy = Neg(ss.jy)
    IN  /\ InBounds(r.ds)
        /\ InBounds(r.ret.ds)
        /\ dataset' = r.ds
        /\ UNCHANGED units
        /\ last' = Last("remove_ss", r.out,
                        [inplace |-> inplace, jx |-> r.jx, jy |-> r.jy],
                        IF ok /\ ~inplace THEN r.ret ELSE NoRet)
        /\ ss' = IF ~ok THEN NoSS
                 ELSE IF second
                 THEN [stage |-> 2, orig |-> ss.orig, jx |-> r.jx, jy |-> r.jy,
                       onret |-> ~inplace]
                 ELSE [stage |-> 1, orig |-> z(units, dataset).val,
                       jx |-> r.jx, jy |-> r.jy, onret |-> ~inplace]

\* obj.remove_distortion(distortion_tensor, distortion_error_tensor, inplace=...)
RemoveDistortion(inplace) ==
    \E d \in {DistortionOut(dataset.n)} :
    \E r \in {remove_distortion(units, dataset, d.z, d.z_error, inplace)} :
        /\ InBounds(r.ds)
        /\ InBounds(r.ret.ds)
        /\ dataset' = r.ds
        /\ UNCHANGED units
        /\ last' = Last("remove_distortion", r.out, [inplace |-> inplace],
                        IF r.out = "ok" /\ ~inplace THEN r.ret ELSE NoRet)
        /\ ss' = NoSS

\* obj = the object the last call returned
Adopt ==
    /\ last.ret # NoRet
    /\ last.ret # None
    /\ units' = last.ret.units
    /\ dataset' = last.ret.ds
    /\ last' = Last("adopt", "ok", NoArgs, NoRet)
    /\ ss' = IF ss.onret THEN [ss EXCEPT !.onret = FALSE] ELSE NoSS

\* obj.estimate_dimensionality(skew_threshold, eccentricity_threshold), the
\* phase tensor reporting skew and eccentricity
EstimateDimensionality(skew, eccentricity, st, et) ==
    LET r == z(units, dataset)
        out == IF r.out # "ok" THEN r.out
               ELSE IF r.val = None THEN "CollaboratorError"
               ELSE "ok"
    IN  /\ UNCHANGED <<units, dataset>>
        /\ last' = Last("estimate_dimensionality", out,
                        [skew |-> skew, eccentricity |-> eccentricity,
                         skew_threshold |-> st, eccentricity_threshold |-> et],
                        IF out = "ok"
                        THEN estimate_dimensionality(skew, eccentricity, st, et)
                        ELSE None)
        /\ ss' = NoSS

\* value = obj.<name>, for the array properties
ReadProperty(name) ==
    \E r \in {Property(name, units, dataset)} :
        /\ UNCHANGED <<units, dataset>>
        /\ last' = Last("read", r.out,
                        [name |-> name, comp |-> "", val |-> r.val], NoRet)
        /\ ss' = NoSS

\* value = obj.<prefix>_<comp>, for the per-component properties
ReadComponent(prefix, comp) ==
    \E r \in {Component(prefix, comp, units, dataset)} :
        /\ UNCHANGED <<units, dataset>>
        /\ last' = Last("read", r.out,
                        [name |-> ComponentOf[prefix], comp |-> comp,
                         val |-> r.val], NoRet)
        /\ ss' = NoSS

\* obj.set_resistivity_phase(resistivity, phase, frequency, res_error, ...)
SetResistivityPhase(a) ==
    \E r \in {set_resistivity_phase(dataset, a)} :
        /\ dataset' = r.ds
        /\ UNCHANGED units
        /\ last' = Last("set_resistivity_phase", r.out, a, NoRet)
        /\ ss' = NoSS

\* Construction, unit selection and the three array setters.
Next ==
    \/ \E value \in UnitInputs : SetUnits(value)
    \/ \E a \in ZInputs \cup {None} : Set_z(a)
    \/ \E a \in EInputs \cup {None} : Set_z_error(a)
    \/ \E a \in MEInputs \cup {None} : Set_z_model_error(a)

\* Static-shift removal on every constructed object, in chains.
NextSS ==
    \/ \E fx \in Factors, fy \in Factors, inplace \in BOOLEAN :
          RemoveSS(fx, fy, inplace)
    \/ Adopt

SpecSS == Init /\ [][NextSS]_vars

\* Distortion removal on every constructed object, with unit changes and
\* model-error assignments in between.
NextDist ==
    \/ \E inplace \in BOOLEAN : RemoveDistortion(inplace)
    \/ Adopt
    \/ \E value \in UnitInputs : SetUnits(value)
    \/ \E a \in MEInputs \cup {None} : Set_z_model_error(a)

SpecDist == Init /\ [][NextDist]_vars

\* The dimensionality estimate alone, on every constructed object.
NextDim ==
    \E skew \in [1..dataset.n -> SkewValues],
       eccentricity \in [1..dataset.n -> EccValues],
       st \in SkewThresholds, et \in EccThresholds :
        EstimateDimensionality(skew, eccentricity, st, et)

SpecDim == Init /\ [][NextDim]_vars

Spec == Init /\ [][Next]_vars

\* Reconstruction from resistivity and phase on every constructed object, call
\* after call.
NextRP ==
    \/ \E N \in Lengths, Nf \in Lengths, missing \in Missing :
          SetResistivityPhase(RPArgs(N, Nf, missing, "none", "none"))
    \/ \E N \in Lengths, Nf \in Lengths, err \in ErrCases,
          merr \in ModelErrCases :
          SetResistivityPhase(RPArgs(N, Nf, "", err, merr))

SpecRP == Init /\ [][NextRP]_vars

\* Reads of every property on every constructed object, with unit changes and
\* model-error assignments in between.
NextRead ==
    \/ \E name \in PropertyNames : ReadProperty(name)
    \/ \E prefix \in DOMAIN ComponentOf, comp \in DOMAIN CompIndex :
          ReadComponent(prefix, comp)
    \/ \E value \in UnitInputs : SetUnits(value)
    \/ \E a \in EInputs : Set_z_model_error(a)

SpecRead == Init /\ [][NextRead]_vars

-----------------------------------------------------------------------------
\* Properties.

Setters == {"z", "z_error", "z_model_error"}

FieldOf(op) ==
    CASE op = "z" -> "tf"
      [] op = "z_error" -> "tf_error"
      [] op = "z_model_error" -> "tf_model_error"

\* array * factor(u) and array / factor(u), None staying None
Times(a, u) == IF a = None THEN None ELSE ArrMulF(a, IMPEDANCE_UNITS[u])
Over(a, u) == IF a = None THEN None ELSE ArrMulF(a, 0 - IMPEDANCE_UNITS[u])

\* what the three getters return, as one record
Reads(u, ds) ==
    [z |-> z(u, ds), z_error |-> z_error(u, ds),
     z_model_error |-> z_model_error(u, ds)]

\* C1: in each unit of the table, after z is assigned an array X without
\* error, reading z in the same unit returns X; so do z_error and
\* z_model_error, assigned on an object that holds a tensor.
C1_RoundTrip ==
    (/\ last.op \in Setters
     /\ last.out = "ok"
     /\ last.arg.value # None
     /\ units \in UnitKeys
     /\ (last.op = "z" \/ dataset.tf # None))
    => Get(units, dataset, FieldOf(last.op)).val = last.arg.value

\* C2: an object constructed with units U and data X stores X * factor(U)
\* (and the frequency as given); a units assignment leaves the stored arrays
\* and the frequency unchanged; and every read returns the stored array over
\* the factor of the unit selected.
C2_Constructed ==
    last.op = "init" =>
        LET U == last.arg.units.s
        IN  /\ dataset.tf = Times(last.arg.z, U)
            /\ dataset.tf_error = Times(last.arg.z_error, U)
            /\ dataset.tf_model_error = Times(last.arg.z_model_error, U)
            /\ dataset.frequency = last.arg.frequency

C2_Reads ==
    units \in UnitKeys =>
        /\ z(units, dataset) = [out |-> "ok", val |-> Over(dataset.tf, units)]
        /\ z_error(units, dataset)
             = [out |-> "ok", val |-> Over(dataset.tf_error, units)]
        /\ z_model_error(units, dataset)
             = [out |-> "ok", val |-> Over(dataset.tf_model_error, units)]

C2_CanonicalStorage ==
    /\ [](C2_Constructed /\ C2_Reads)
    /\ [][last'.op = "units" => dataset' = dataset]_vars

\* data given in "mt" is read under "ohm" as X / factor("ohm")
C2_Witness ==
    /\ last.op = "units"
    /\ last.out = "ok"
    /\ units = "ohm"
    /\ \E N \in Lengths :
          /\ dataset.tf = ZSample(N, 1)
          /\ z(units, dataset).val = ArrMulF(ZSample(N, 1), 0 - 1)

EstablishedN(ds) ==
    IF ds.frequency # None THEN Len(ds.frequency) ELSE Len(ds.tf)

C5_OwnFieldOnly ==
    [][(last'.op \in Setters /\ last'.out = "ok")
       => IF last'.arg.value = None
          THEN units' = units /\ dataset' = dataset
          ELSE /\ units \in UnitKeys
                  => Get(units', dataset', FieldOf(last'.op)).val = last'.arg.value
               /\ \A name \in {"tf", "tf_error", "tf_model_error"} \ {FieldOf(last'.op)} :
                     dataset'[name] = dataset[name]
               /\ dataset'.frequency = dataset.frequency]_vars

\* row x over 2^jx, row y over 2^jy, frequency by frequency
DivRows(a, jx, jy) ==
    [f \in 1..Len(a) |->
        <<DivSqrt(a[f][1], jx[f]), DivSqrt(a[f][2], jx[f]),
          DivSqrt(a[f][3], jy[f]), DivSqrt(a[f][4], jy[f])>>]

\* C6: remove_ss gives, in the object's unit, the tensor with row x over
\* sqrt(fx) and row y over sqrt(fy); not in place, the returned object has it
\* with the receiver's errors, frequency and units and the receiver is
\* unchanged; in place, the receiver has it and the rest is unchanged.
C6_RemoveSS ==
    [][(last'.op = "remove_ss" /\ last'.out = "ok")
       => LET expected == DivRows(z(units, dataset).val,
                                  last'.arg.jx, last'.arg.jy)
          IN  IF last'.arg.inplace
              THEN /\ z(units', dataset').val = expected
                   /\ units' = units
                   /\ dataset'.tf_error = dataset.tf_error
                   /\ dataset'.tf_model_error = dataset.tf_model_error
                   /\ dataset'.frequency = dataset.frequency
              ELSE /\ units' = units
                   /\ dataset' = dataset
                   /\ last'.ret.units = units
                   /\ z(last'.ret.units, last'.ret.ds).val = expected
                   /\ z_error(last'.ret.units, last'.ret.ds)
                        = z_error(units, dataset)
                   /\ z_model_error(last'.ret.units, last'.ret.ds)
                        = z_model_error(units, dataset)
                   /\ last'.ret.ds.frequency = dataset.frequency]_vars

\* a factor the claim takes as valid for a tensor of length N
ValidFactor(factor, N) ==
    factor.kind = "num" \/ (factor.kind = "list" /\ factor.len = N)

\* C7: on an object with a tensor, a call whose two factors are each a number
\* or a sequence of length N is accepted, whatever the combination; any
\* other call is rejected with the invalid-factor error and changes nothing.
C7_FactorValidation ==
    [][\A fx \in Factors, fy \in Factors, inplace \in BOOLEAN :
          (/\ RemoveSS(fx, fy, inplace)
           /\ dataset.tf # None
           /\ units \in UnitKeys)
          => IF ValidFactor(fx, Len(dataset.tf)) /\ ValidFactor(fy, Len(dataset.tf))
             THEN last'.out = "ok"
             ELSE /\ last'.out = "ValueError"
                  /\ units' = units
                  /\ dataset' = dataset]_vars

\* C8: remove_ss with (fx, fy) and then, on its result, remove_ss with
\* (1/fx, 1/fy) gives back the tensor the first call started from.
C8_Reciprocal ==
    ss.stage = 2 =>
        IF ss.onret
        THEN z(last.ret.units, last.ret.ds).val = ss.orig
        ELSE z(units, dataset).val = ss.orig

\* C9: remove_distortion in place leaves the model error as it was; not in
\* place it leaves the receiver unchanged and returns an object with the
\* receiver's units and frequency whose z_model_error reads as the receiver's.
C9_ModelErrorKept ==
    [][(last'.op = "remove_distortion" /\ last'.out = "ok")
       => IF last'.arg.inplace
          THEN /\ units' = units
               /\ dataset'.tf_model_error = dataset.tf_model_error
          ELSE /\ units' = units
               /\ dataset' = dataset
               /\ last'.ret.units = units
               /\ last'.ret.ds.frequency = dataset.frequency
               /\ z_model_error(last'.ret.units, last'.ret.ds)
                    = z_model_error(units, dataset)]_vars

\* C10: the estimate has one entry per frequency; the entry is 3 where |skew|
\* is over its threshold, otherwise 2 where the eccentricity is over its
\* threshold, otherwise 1; skew (0, 0, 10) and eccentricity (0, 0.2, 0) with
\* thresholds (5, 0.1) give (1, 2, 3); the call leaves the object unchanged.
Classified(skew, eccentricity, st, et) ==
    IF Abs(skew) > st THEN 3 ELSE IF eccentricity > et THEN 2 ELSE 1

C10_Result ==
    /\ estimate_dimensionality(<<0, 0, 10>>, <<0, 2, 0>>, 5, 1) = <<1, 2, 3>>
    /\ (last.op = "estimate_dimensionality" /\ last.out = "ok")
       => /\ Len(last.ret) = Len(dataset.tf)
          /\ \A f \in 1..Len(last.ret) :
                /\ last.ret[f] \in {1, 2, 3}
                /\ last.ret[f] = Classified(last.arg.skew[f],
                                            last.arg.eccentricity[f],
                                            last.arg.skew_threshold,
                                            last.arg.eccentricity_threshold)

C10_Classification ==
    /\ []C10_Result
    /\ [][last'.op = "estimate_dimensionality"
          => (units' = units /\ dataset' = dataset)]_vars

\* a frequency over both thresholds, next to one over none
C10_Witness ==
    /\ last.op = "estimate_dimensionality"
    /\ last.out = "ok"
    /\ \E f \in 1..Len(last.ret) :
          /\ Abs(last.arg.skew[f]) > last.arg.skew_threshold
          /\ last.arg.eccentricity[f] > last.arg.eccentricity_threshold
          /\ last.ret[f] = 3
    /\ \E f \in 1..Len(last.ret) : last.ret[f] = 1

\* the derived quantities C11 lists
UnitFreeNames ==
    {"resistivity", "phase", "resistivity_error", "phase_error",
     "resistivity_model_error", "phase_model_error", "det", "det_error",
     "det_model_error", "phase_det", "res_det", "res_error_det",
     "res_model_error_det"}

\* C11: a derived quantity read on an object is what an object with the same
\* stored arrays and frequency and the other unit returns; det_model_error
\* is det_error when z_model_error is z_error; a read changes nothing.
C11_Read ==
    (/\ last.op = "read"
     /\ last.arg.comp = ""
     /\ last.arg.name \in UnitFreeNames
     /\ units \in UnitKeys)
    => /\ \A u \in UnitKeys :
             Property(last.arg.name, u, dataset)
               = [out |-> last.out, val |-> last.arg.val]
       /\ (/\ last.arg.name = "det_model_error"
           /\ z_model_error(units, dataset) = z_error(units, dataset))
          => det_error(units, dataset) = [out |-> last.out, val |-> last.arg.val]

C11_UnitIndependent ==
    /\ []C11_Read
    /\ [][last'.op = "read" => (units' = units /\ dataset' = dataset)]_vars

\* a call of set_resistivity_phase that returned, made with a resistivity, a
\* phase and a frequency array of one length, on an object whose unit is in
\* the table
Reconstructed ==
    /\ last.op = "set_resistivity_phase"
    /\ last.out = "ok"
    /\ last.arg.resistivity # None
    /\ last.arg.phase # None
    /\ last.arg.frequency # None
    /\ Len(last.arg.resistivity) = Len(last.arg.frequency)
    /\ Len(last.arg.phase) = Len(last.arg.frequency)
    /\ units \in UnitKeys

\* the resistivity array R and the phase array P as the properties give them
AsResistivity(R) ==
    [f \in 1..Len(R) |-> [k \in 1..4 |-> Ratio(R[f][k], 1, 0, 0)]]
AsPhase(P) ==
    [f \in 1..Len(P) |-> [k \in 1..4 |-> [deg |-> P[f][k], dir |-> <<0, 0>>]]]

\* C12 as stated: after set_resistivity_phase(R, P, frequency), in each unit,
\* the frequency axis is the one given, resistivity returns R and phase
\* returns P, for every non-negative R.
C12_RoundTrip ==
    Reconstructed
    => /\ frequency(dataset) = last.arg.frequency
       /\ resistivity(units, dataset).val = AsResistivity(last.arg.resistivity)
       /\ phase(units, dataset).val = AsPhase(last.arg.phase)

\* C12 amended: the frequency axis is the one given and resistivity returns
\* R; phase returns P at every entry whose resistivity is positive, and 0 at
\* an entry whose resistivity is 0.
C12_RoundTripPositive ==
    Reconstructed
    => /\ frequency(dataset) = last.arg.frequency
       /\ resistivity(units, dataset).val = AsResistivity(last.arg.resistivity)
       /\ \A f \in 1..Len(last.arg.phase) : \A k \in 1..4 :
             phase(units, dataset).val[f][k].dir = <<0, 0>>
             /\ phase(units, dataset).val[f][k].deg
                  = IF last.arg.resistivity[f][k] > 0
                    THEN last.arg.phase[f][k] ELSE 0

\* in unit "ohm", two frequencies, a phase of 180 read back
C12_Witness ==
    /\ Reconstructed
    /\ units = "ohm"
    /\ Len(last.arg.frequency) = 2
    /\ last.arg.resistivity[2][1] > 0
    /\ phase(units, dataset).val[2][1].deg = 180
    /\ resistivity(units, dataset).val[1][2] = Ratio(4, 1, 0, 0)

\* C13: a call of set_resistivity_phase with resistivity, phase or frequency
\* None changes nothing; a call that raises changes nothing; a call that
\* returns has stored the frequency given, the tensor built from the
\* arguments and the error array of each error pair given; units never change.
C13_AllOrNothing ==
    [][last'.op = "set_resistivity_phase"
       => LET a == last'.arg
          IN  /\ units' = units
              /\ IF a.resistivity = None \/ a.phase = None \/ a.frequency = None
                 THEN last'.out = "ok" /\ dataset' = dataset
                 ELSE IF last'.out # "ok" THEN dataset' = dataset
                 ELSE /\ dataset'.frequency = a.frequency
                      /\ dataset'.tf = ZFromResPhase(a.frequency, a.resistivity,
                                                     a.phase, dataset'.n)
                      /\ a.res_error # None
                         => dataset'.tf_error
                              = _compute_z_error(a.frequency, a.res_error,
                                                 a.phase_error).val
                      /\ a.res_model_error # None
                         => dataset'.tf_model_error
                              = _compute_z_error(a.frequency, a.res_model_error,
                                                 a.phase_model_error).val]_vars

\* C14: after a units assignment that returns without error the units value
\* stored is a key of the unit table, and no read of an array property or of
\* a component raises the KeyError of the scale factor.
C14_ScaleFactorDefined ==
    /\ (last.op = "units" /\ last.out = "ok") => units \in UnitKeys
    /\ last.op = "read" => last.out # "KeyError"

\* the reads derived from z_error and those derived from z_model_error
ErrorReads ==
    {"resistivity_error", "phase_error", "det_error", "res_error_det",
     "phase_error_det"}
ModelErrorReads ==
    {"resistivity_model_error", "phase_model_error", "det_model_error",
     "res_model_error_det", "phase_model_error_det"}

\* C15: on an object with a tensor and a frequency axis, every read derived
\* from z_error returns None when z_error is absent, and every read derived
\* from z_model_error returns None when z_model_error is absent; none raises.
C15_AbsentGivesNone ==
    (/\ last.op = "read"
     /\ units \in UnitKeys
     /\ dataset.tf # None
     /\ dataset.frequency # None
     /\ \/ last.arg.name \in ErrorReads /\ dataset.tf_error = None
        \/ last.arg.name \in ModelErrorReads /\ dataset.tf_model_error = None)
    => /\ last.out = "ok"
       /\ last.arg.val = None

====
